---- MODULE Spec2Model ----
(***************************************************************************)
(* Model of src/database.rs: the link store over the single SQLite         *)
(* relation `links(user_id, link)`.  Every public function opens its own   *)
(* connection, prepares and binds one statement (delete_some_links: one    *)
(* per item), steps it and returns; every failure is an expect()/unwrap()  *)
(* panic.  Callers are threads; one statement of one caller is one step.   *)
(***************************************************************************)
EXTENDS Integers, Sequences, FiniteSets, TLC

VARIABLES rel, pc, call, idx, conn, result, fault, relAtCall, live, cfg

vars == <<rel, pc, call, idx, conn, result, fault, relAtCall, live, cfg>>

(***************************************************************************)
(* Bounds.                                                                 *)
(***************************************************************************)
\* rows the table may hold with one caller / with two callers
MaxRows == 3
MaxRowsConc == 2
\* longest `links` vector passed to delete_some_links
MaxBatch == 2

(***************************************************************************)
(* Values.  A u64 user id v is written [hi |-> h, lo |-> l] and stands for *)
(* v = h * 2^53 + l with l < 2^53, so that ids above the range in which    *)
(* an f64 is exact can be written with small numbers.  The same record     *)
(* shape is used for the f64 read back from column 0.                      *)
(***************************************************************************)
U64(h, l) == [hi |-> h, lo |-> l]

\* 7 and 2^53 + 1
UserIds == {U64(0, 7), U64(1, 1)}
\* the user the concurrent callers work on
UserIdsConc == {U64(1, 1)}

LinkTexts == {"a", "A"}
LinkTextsConc == {"a"}

Callers == {"t1", "t2"}

\* the nearest multiple of 2 to l, ties to the even significand: the spacing
\* of the f64 values in [2^53, 2^54) is 2
RoundToEven(l) ==
    IF l % 2 = 0 THEN l
    ELSE IF ((l - 1) \div 2) % 2 = 0 THEN l - 1 ELSE l + 1

\* db.read::<f64>(0): the stored integer converted to a double
ToF64(u) == IF u.hi = 0 THEN u ELSE U64(u.hi, RoundToEven(u.lo))

\* (variant) the column keeps the id as a REAL
ToNumeric_Real(p) == ToF64(p.text)

\* user_id.to_string().as_str(): the id bound as a TEXT parameter
ToText(u) == [text |-> u]

\* the numeric value SQLite gives a TEXT parameter that is compared with, or
\* stored into, the numeric user_id column
ToNumeric(p) == p.text

(***************************************************************************)
(* The statements of the source, executed on the table (a sequence of rows *)
(* in rowid order).  params[i] is the value bound to the i-th `?`.         *)
(***************************************************************************)
Links(user_id, link) == [user_id |-> user_id, link |-> link]

SqlInsert == "INSERT INTO links VALUES (?, ?)"
SqlSelectUserLink == "SELECT * FROM links WHERE user_id = ? AND link = ?"
SqlSelectUser == "SELECT * FROM links WHERE user_id = ?"
SqlSelectAll == "SELECT * FROM links"
SqlDeleteUser == "DELETE FROM links WHERE user_id = ?"
SqlDeleteUserLink == "DELETE FROM links WHERE user_id = ? AND link = ?"

\* (variant) WHERE user_id = ? only
MatchUserLink_IgnoresLink(row, params) == row.user_id = ToNumeric(params[1])

MatchUser(row, params) == row.user_id = ToNumeric(params[1])

MatchUserLink(row, params) ==
    row.user_id = ToNumeric(params[1]) /\ row.link = params[2]

\* (variant) INSERT OR IGNORE under a unique (user_id, link)
InsertRow_Dedup(table, params) ==
    IF \E i \in DOMAIN table :
          table[i] = Links(ToNumeric(params[1]), params[2])
    THEN table
    ELSE Append(table, Links(ToNumeric(params[1]), params[2]))

InsertRow(table, params) ==
    Append(table, Links(ToNumeric(params[1]), params[2]))

\* (variant) DELETE FROM links, the WHERE clause lost
DeleteUser_All(table, params) == <<>>

\* (variant) the delete stops after the first record of the user
DeleteUser_FirstOnly(table, params) ==
    LET m == {i \in DOMAIN table : MatchUser(table[i], params)}
    IN IF m = {} THEN table
       ELSE LET k == CHOOSE i \in m : \A j \in m : i <= j
            IN SubSeq(table, 1, k - 1) \o SubSeq(table, k + 1, Len(table))

DeleteUser(table, params) ==
    SelectSeq(table, LAMBDA row : ~MatchUser(row, params))

\* (variant) WHERE link = ? only
DeleteUserLink_LinkOnly(table, params) ==
    SelectSeq(table, LAMBDA row : row.link # params[2])

DeleteUserLink(table, params) ==
    SelectSeq(table, LAMBDA row : ~MatchUserLink(row, params))

SelectUser(table, params) ==
    SelectSeq(table, LAMBDA row : MatchUser(row, params))

SelectUserLink(table, params) ==
    SelectSeq(table, LAMBDA row : MatchUserLink(row, params))

\* the table after the statement
TableAfter(sql, params, table) ==
    CASE sql = SqlInsert -> InsertRow(table, params)
      [] sql = SqlDeleteUser -> DeleteUser(table, params)
      [] sql = SqlDeleteUserLink -> DeleteUserLink(table, params)
      [] OTHER -> table

\* the rows the statement yields on State::Row, before State::Done
RowsOf(sql, params, table) ==
    CASE sql = SqlSelectUserLink -> SelectUserLink(table, params)
      [] sql = SqlSelectUser -> SelectUser(table, params)
      [] sql = SqlSelectAll -> table
      [] OTHER -> <<>>

\* add_to_vec_from_database: one Links per row, user_id read as f64
add_to_vec_from_database(rows) ==
    [i \in 1..Len(rows) |-> Links(ToF64(rows[i].user_id), rows[i].link)]

(***************************************************************************)
(* Calls.  call[c] is the call thread c is in: the function, its user_id,  *)
(* its `link` (an Option: <<>> or <<l>>) and its `links` vector.           *)
(***************************************************************************)
Call(op, user_id, link, links) ==
    [op |-> op, user_id |-> user_id, link |-> link, links |-> links]

NoCall == Call("none", U64(0, 0), <<>>, <<>>)

\* the value a function has computed: a State, a Vec<Links>, a bool or ()
Value(kind, rows, bool) == [kind |-> kind, rows |-> rows, bool |-> bool]

NoValue == Value("none", <<>>, FALSE)

Batches == UNION {[1..n -> cfg.links] : n \in 0..MaxBatch}

\* the statements a call steps before it returns
StatementsOf(k) ==
    IF k.op = "delete_some_links" THEN Len(k.links) ELSE 1

\* the n-th statement of a call: its text and the values bound to it
SqlOf(k) ==
    CASE k.op = "add_link" -> SqlInsert
      [] k.op \in {"get_all_links_from_user", "is_link_exists"} ->
           IF k.link # <<>> THEN SqlSelectUserLink ELSE SqlSelectUser
      [] k.op = "get_all_links" -> SqlSelectAll
      [] k.op = "clear_all_links" -> SqlDeleteUser
      [] k.op = "delete_some_links" -> SqlDeleteUserLink

ParamsOf(k, n) ==
    CASE k.op = "add_link" -> <<ToText(k.user_id), k.link[1]>>
      [] k.op \in {"get_all_links_from_user", "is_link_exists"} ->
           IF k.link # <<>> THEN <<ToText(k.user_id), k.link[1]>>
                            ELSE <<ToText(k.user_id)>>
      [] k.op = "get_all_links" -> <<>>
      [] k.op = "clear_all_links" -> <<ToText(k.user_id)>>
      [] k.op = "delete_some_links" -> <<ToText(k.user_id), k.links[n]>>

\* what the function holds once the statement has been stepped to Done
ValueOf(k, rows) ==
    CASE k.op \in {"add_link", "clear_all_links"} -> Value("State", <<>>, FALSE)
      [] k.op \in {"get_all_links_from_user", "get_all_links"} ->
           Value("Vec", add_to_vec_from_database(rows), FALSE)
      [] k.op = "is_link_exists" ->
           Value("bool", <<>>, Len(add_to_vec_from_database(rows)) > 0)
      [] k.op = "delete_some_links" -> Value("unit", <<>>, FALSE)

\* the records inserted and not removed since, counted per (user_id, link)
\* from the successful statements alone
LiveAfter(k, n, lv) ==
    CASE k.op = "add_link" ->
           [lv EXCEPT ![<<k.user_id, k.link[1]>>] = @ + 1]
      [] k.op = "clear_all_links" ->
           [p \in DOMAIN lv |-> IF p[1] = k.user_id THEN 0 ELSE lv[p]]
      [] k.op = "delete_some_links" ->
           [lv EXCEPT ![<<k.user_id, k.links[n]>>] = 0]
      [] OTHER -> lv

(***************************************************************************)
(* Initial states: an empty table and no call in progress.  cfg fixes the  *)
(* threads that call, the user ids and link texts they pass and the        *)
(* table's capacity.                                                       *)
(***************************************************************************)
InitWith(c) ==
    /\ cfg = c
    /\ rel = <<>>
    /\ pc = [t \in Callers |-> "idle"]
    /\ call = [t \in Callers |-> NoCall]
    /\ idx = [t \in Callers |-> 0]
    /\ conn = [t \in Callers |-> FALSE]
    /\ result = [t \in Callers |-> NoValue]
    /\ fault = [t \in Callers |-> "none"]
    /\ relAtCall = [t \in Callers |-> <<>>]
    /\ live = [p \in UserIds \X LinkTexts |-> 0]

\* one thread
Init ==
    InitWith([callers |-> {"t1"}, users |-> UserIds, links |-> LinkTexts,
              maxRows |-> MaxRows])

\* two threads
InitConc ==
    InitWith([callers |-> Callers, users |-> UserIdsConc,
              links |-> LinkTextsConc, maxRows |-> MaxRowsConc])

(***************************************************************************)
(* The head of every function: env::var("DATABASE_URL").expect(..) and     *)
(* sqlite3::open(..).expect(..).  Either may panic, before any connection  *)
(* exists; otherwise the call holds an open connection.                    *)
(***************************************************************************)
\* (variant) the failure is swallowed and the function returns
Panic_Swallowed(c, kind) ==
    /\ pc' = [pc EXCEPT ![c] = "done"]
    /\ fault' = [fault EXCEPT ![c] = kind]
    /\ conn' = [conn EXCEPT ![c] = FALSE]
    /\ result' = [result EXCEPT ![c] = NoValue]

\* (variant) the connection is not dropped on the way out
Panic_Leak(c, kind) ==
    /\ pc' = [pc EXCEPT ![c] = "panicked"]
    /\ fault' = [fault EXCEPT ![c] = kind]
    /\ conn' = conn
    /\ result' = [result EXCEPT ![c] = NoValue]

Panic(c, kind) ==
    /\ pc' = [pc EXCEPT ![c] = "panicked"]
    /\ fault' = [fault EXCEPT ![c] = kind]
    /\ conn' = [conn EXCEPT ![c] = FALSE]
    /\ result' = [result EXCEPT ![c] = NoValue]

Open(c, k) ==
    /\ c \in cfg.callers
    /\ pc[c] \in {"idle", "done", "panicked"}
    /\ call' = [call EXCEPT ![c] = k]
    /\ idx' = [idx EXCEPT ![c] = 0]
    /\ relAtCall' = [relAtCall EXCEPT
                       ![c] = IF k.op = "delete_some_links" THEN rel ELSE <<>>]
    /\ \/ /\ pc' = [pc EXCEPT ![c] = "opened"]
          /\ conn' = [conn EXCEPT ![c] = TRUE]
          /\ result' = [result EXCEPT ![c] = NoValue]
          /\ fault' = [fault EXCEPT ![c] = "none"]
       \/ \E kind \in {"ConfigurationMissing", "BackendUnavailable"} :
            Panic(c, kind)
    /\ UNCHANGED <<rel, live, cfg>>

add_link(c) ==
    \E u \in cfg.users, l \in cfg.links :
        /\ Len(rel) < cfg.maxRows
        /\ Open(c, Call("add_link", u, <<l>>, <<>>))

is_link_exists(c) ==
    \E u \in cfg.users, l \in cfg.links :
        Open(c, Call("is_link_exists", u, <<l>>, <<>>))

get_all_links_from_user(c) ==
    \E u \in cfg.users, l \in {<<>>} \cup {<<t>> : t \in cfg.links} :
        Open(c, Call("get_all_links_from_user", u, l, <<>>))

get_all_links(c) ==
    /\ c \in cfg.callers
    /\ Open(c, Call("get_all_links", U64(0, 0), <<>>, <<>>))

clear_all_links(c) ==
    \E u \in cfg.users : Open(c, Call("clear_all_links", u, <<>>, <<>>))

delete_some_links(c) ==
    \E u \in cfg.users, ls \in Batches :
        Open(c, Call("delete_some_links", u, <<>>, ls))

(***************************************************************************)
(* connection.prepare(..).unwrap(), db.bind(..).unwrap() and               *)
(* db.next().unwrap() of the call's next statement: SQLite applies the     *)
(* statement as a whole or not at all.                                     *)
(***************************************************************************)
Step(c) ==
    /\ c \in cfg.callers
    /\ pc[c] = "opened"
    /\ idx[c] < StatementsOf(call[c])
    /\ call[c].op = "add_link" => Len(rel) < cfg.maxRows
    /\ LET sql == SqlOf(call[c])
           params == ParamsOf(call[c], idx[c] + 1)
       IN /\ rel' = TableAfter(sql, params, rel)
          /\ result' = [result EXCEPT
                          ![c] = ValueOf(call[c], RowsOf(sql, params, rel))]
    /\ live' = LiveAfter(call[c], idx[c] + 1, live)
    /\ idx' = [idx EXCEPT ![c] = @ + 1]
    /\ UNCHANGED <<pc, call, conn, fault, relAtCall, cfg>>

\* (variant) the batch runs in one transaction, rolled back on failure
StepPanic_Rollback(c) ==
    /\ c \in cfg.callers
    /\ pc[c] = "opened"
    /\ idx[c] < StatementsOf(call[c])
    /\ Panic(c, "StatementError")
    /\ rel' = IF call[c].op = "delete_some_links" THEN relAtCall[c] ELSE rel
    /\ UNCHANGED <<call, idx, relAtCall, live, cfg>>

\* one of the three unwrap()s of the next statement panics: the statement
\* has no effect and unwinding drops the statement and the connection
StepPanic(c) ==
    /\ c \in cfg.callers
    /\ pc[c] = "opened"
    /\ idx[c] < StatementsOf(call[c])
    /\ Panic(c, "StatementError")
    /\ UNCHANGED <<rel, call, idx, relAtCall, live, cfg>>

\* the end of the function: `connection` goes out of scope and the value
\* is handed to the caller
Return(c) ==
    /\ c \in cfg.callers
    /\ pc[c] = "opened"
    /\ idx[c] = StatementsOf(call[c])
    /\ pc' = [pc EXCEPT ![c] = "done"]
    /\ conn' = [conn EXCEPT ![c] = FALSE]
    /\ result' = [result EXCEPT
                    ![c] = IF call[c].op = "delete_some_links"
                           THEN Value("unit", <<>>, FALSE) ELSE @]
    /\ UNCHANGED <<rel, call, idx, fault, relAtCall, live, cfg>>

Next ==
    \E c \in Callers :
        \/ add_link(c)
        \/ is_link_exists(c)
        \/ get_all_links_from_user(c)
        \/ get_all_links(c)
        \/ clear_all_links(c)
        \/ delete_some_links(c)
        \/ Step(c)
        \/ StepPanic(c)
        \/ Return(c)

Spec == Init /\ [][Next]_vars

SpecConc == InitConc /\ [][Next]_vars

(***************************************************************************)
(* Properties.  They are stated over the table itself, not through the     *)
(* statement operators above.                                              *)
(***************************************************************************)
Range(f) == {f[i] : i \in DOMAIN f}

\* the records (u, l) in a table
Count(table, u, l) ==
    Cardinality({i \in DOMAIN table :
                    table[i].user_id = u /\ table[i].link = l})

Owned(table, u) == SelectSeq(table, LAMBDA row : row.user_id = u)

NotOwned(table, u) == SelectSeq(table, LAMBDA row : row.user_id # u)

\* the table without the records of u whose link is in ls
Without(table, u, ls) ==
    SelectSeq(table, LAMBDA row : ~(row.user_id = u /\ row.link \in ls))

Returned(c, op) == pc[c] = "done" /\ call[c].op = op

\* thread c steps a statement of a call to op in this transition
Stepping(c, op) ==
    /\ pc[c] = "opened"
    /\ call[c].op = op
    /\ pc'[c] = "opened"
    /\ idx'[c] = idx[c] + 1

\* C1: is_link_exists(u, l) returns true exactly when a record (u, l) was
\* inserted and has not been removed since by clear_all_links(u) or by a
\* delete_some_links(u, ..) naming l.
C1_ExistsIffLive ==
    \A c \in Callers :
        Returned(c, "is_link_exists") =>
            /\ result[c].kind = "bool"
            /\ result[c].bool = (live[<<call[c].user_id, call[c].link[1]>>] > 0)

\* is_link_exists returned false for a user who has records, all of them
\* with other link texts
C1_Witness ==
    \E c \in Callers :
        /\ Returned(c, "is_link_exists")
        /\ ~result[c].bool
        /\ Owned(rel, call[c].user_id) # <<>>

\* C2: a successful add_link(u, l) appends exactly one record (u, l): the
\* count of (u, l) grows by one, the count of every other pair and the
\* records already there are unchanged.
C2_InsertAddsOne ==
    [][\A c \in Callers :
          Stepping(c, "add_link") =>
              /\ Len(rel') = Len(rel) + 1
              /\ SubSeq(rel', 1, Len(rel)) = rel
              /\ \A u \in UserIds, l \in LinkTexts :
                    Count(rel', u, l) =
                        Count(rel, u, l) +
                        (IF u = call[c].user_id /\ l = call[c].link[1]
                         THEN 1 ELSE 0)]_vars

\* the same (u, l) inserted twice into an empty store: two records
C2_Witness ==
    \E c \in Callers :
        /\ Returned(c, "add_link")
        /\ Len(rel) = 2
        /\ Count(rel, call[c].user_id, call[c].link[1]) = 2

\* C3: get_all_links_from_user(u, link) returns exactly the records owned by
\* u (whose link equals the filter, when one is given), each carrying the
\* user_id u that was queried.
C3_QueryReturnsOwned ==
    \A c \in Callers :
        Returned(c, "get_all_links_from_user") =>
            result[c].rows =
                IF call[c].link = <<>>
                THEN Owned(rel, call[c].user_id)
                ELSE SelectSeq(Owned(rel, call[c].user_id),
                               LAMBDA row : row.link = call[c].link[1])

\* C4: a clear_all_links(u) statement removes every record of u, leaves the
\* records of the other users as they were, and clearing the resulting
\* table again changes nothing.
C4_ClearAll ==
    [][\A c \in Callers :
          Stepping(c, "clear_all_links") =>
              /\ Owned(rel', call[c].user_id) = <<>>
              /\ NotOwned(rel', call[c].user_id) =
                     NotOwned(rel, call[c].user_id)
              /\ rel' = NotOwned(rel, call[c].user_id)
              /\ DeleteUser(rel', <<ToText(call[c].user_id)>>) = rel']_vars

\* clear_all_links returned for a user while records of another user remain
C4_Witness ==
    \E c \in Callers :
        /\ Returned(c, "clear_all_links")
        /\ result[c].kind = "State"
        /\ Owned(rel, call[c].user_id) = <<>>
        /\ rel # <<>>

\* C5: when delete_some_links(u, links) returns, the table is the table at
\* the call without the records (u, l) with l in links; nothing else changed.
C5_DeleteMany ==
    \A c \in Callers :
        Returned(c, "delete_some_links") =>
            /\ fault[c] = "none"
            /\ rel = Without(relAtCall[c], call[c].user_id,
                             Range(call[c].links))

\* a two-item batch returned, having removed some records and left others
C5_Witness ==
    \E c \in Callers :
        /\ Returned(c, "delete_some_links")
        /\ Len(call[c].links) = 2
        /\ rel # relAtCall[c]
        /\ Owned(rel, call[c].user_id) # <<>>
        /\ NotOwned(rel, call[c].user_id) # <<>>

\* C6: when delete_some_links(u, links) panics at item k, the table is the
\* table at the call without the records of u matching items 1..k-1: the
\* earlier deletions stay, item k and the later items are not applied.
C6_PartialDelete ==
    \A c \in Callers :
        (pc[c] = "panicked" /\ call[c].op = "delete_some_links"
            /\ fault[c] = "StatementError") =>
            /\ idx[c] < Len(call[c].links)
            /\ rel = Without(relAtCall[c], call[c].user_id,
                             {call[c].links[i] : i \in 1..idx[c]})

\* the batch failed at its second item: the first item's records are gone,
\* the second item's are still there
C6_Witness ==
    \E c \in Callers :
        /\ pc[c] = "panicked"
        /\ call[c].op = "delete_some_links"
        /\ fault[c] = "StatementError"
        /\ idx[c] = 1
        /\ rel # relAtCall[c]
        /\ Count(rel, call[c].user_id, call[c].links[2]) > 0

\* C7 (as claimed): a call that met a failure returns one of the error
\* kinds to its caller.
ErrorKinds ==
    {"ConfigurationMissing", "BackendUnavailable", "StatementError",
     "PartialBatchFailure"}

C7_ErrorsReturned ==
    \A c \in Callers :
        fault[c] # "none" =>
            pc[c] = "done" /\ result[c].kind \in ErrorKinds

\* the value each function returns
ReturnKind(op) ==
    CASE op \in {"add_link", "clear_all_links"} -> "State"
      [] op \in {"get_all_links_from_user", "get_all_links"} -> "Vec"
      [] op = "is_link_exists" -> "bool"
      [] op = "delete_some_links" -> "unit"

\* C7 (amended): a call either returns its documented value or panics at
\* its first failure (configuration, connect or statement); a panicking
\* call hands no value to its caller, is not retried, and a
\* delete_some_links that fails partway reports nothing about the batch.
C7_PanicsOnFailure ==
    \A c \in Callers :
        /\ fault[c] \in {"none", "ConfigurationMissing", "BackendUnavailable",
                         "StatementError"}
        /\ (fault[c] # "none") <=> (pc[c] = "panicked")
        /\ pc[c] = "panicked" => result[c] = NoValue
        /\ pc[c] = "done" => result[c].kind = ReturnKind(call[c].op)

\* a delete_some_links panicked after its first item: no value returned
C7_Witness ==
    \E c \in Callers :
        /\ pc[c] = "panicked"
        /\ call[c].op = "delete_some_links"
        /\ idx[c] >= 1
        /\ result[c] = NoValue

\* C8: with two threads, every transition that changes the table is one
\* statement of one thread, applied whole: a clear_all_links(u) statement
\* leaves no record of u, an unfiltered query returns every record u has at
\* that moment, and a delete_some_links statement removes the records of
\* its next item only, the other thread being free to act before the next.
C8_StatementAtomic ==
    [][/\ rel' # rel =>
            \E c \in Callers, op \in {"add_link", "clear_all_links",
                                      "delete_some_links"} : Stepping(c, op)
       /\ \A c \in Callers :
            /\ (\E op \in {"add_link", "clear_all_links", "delete_some_links",
                           "get_all_links_from_user", "get_all_links",
                           "is_link_exists"} : Stepping(c, op)) =>
                   \A d \in Callers \ {c} :
                       /\ pc'[d] = pc[d]
                       /\ idx'[d] = idx[d]
                       /\ result'[d] = result[d]
            /\ Stepping(c, "clear_all_links") =>
                   Owned(rel', call[c].user_id) = <<>>
            /\ (Stepping(c, "get_all_links_from_user")
                    /\ call[c].link = <<>>) =>
                   /\ rel' = rel
                   /\ Len(result'[c].rows) = Len(Owned(rel, call[c].user_id))
            /\ Stepping(c, "delete_some_links") =>
                   rel' = Without(rel, call[c].user_id,
                                  {call[c].links[idx[c] + 1]})]_vars

\* a thread has deleted the first item of its batch and not yet the second,
\* and a record of the first item is in the table again: the other thread
\* inserted it between the two deletions
C8_Witness ==
    \E c \in Callers :
        /\ pc[c] = "opened"
        /\ call[c].op = "delete_some_links"
        /\ idx[c] = 1
        /\ Len(call[c].links) = 2
        /\ Count(rel, call[c].user_id, call[c].links[1]) > 0

\* C9: a thread holds an open connection only while its call is in
\* progress; when no call is in progress no connection is open.
OpenConnections == Cardinality({c \in Callers : conn[c]})

C9_ConnectionsReleased ==
    /\ \A c \in Callers : pc[c] # "opened" => ~conn[c]
    /\ (\A c \in Callers : pc[c] # "opened") => OpenConnections = 0

\* both threads have left their calls, one by a panic in the middle of a
\* delete_some_links batch
C9_Witness ==
    /\ \A c \in Callers : pc[c] \in {"done", "panicked"}
    /\ \E c \in Callers :
          /\ pc[c] = "panicked"
          /\ call[c].op = "delete_some_links"
          /\ idx[c] >= 1
    /\ \E c \in Callers : pc[c] = "done"
    /\ OpenConnections = 0

\* C10: the table holds, for every (user_id, link), as many records as were
\* inserted and not removed since: only add_link adds, only clear_all_links
\* and delete_some_links remove, no record is altered and the queries leave
\* the table alone.
C10_RelationIsHistory ==
    /\ \A p \in DOMAIN live : Count(rel, p[1], p[2]) = live[p]
    /\ \A i \in DOMAIN rel :
          <<rel[i].user_id, rel[i].link>> \in DOMAIN live

\* the same pair inserted twice, and a query of everything that returned
\* two records
C10_Witness ==
    \E c \in Callers :
        /\ Returned(c, "get_all_links")
        /\ Len(result[c].rows) = 2
        /\ \E p \in DOMAIN live : live[p] = 2

====
